---- MODULE Spec2Model ----
(***************************************************************************)
(* Verification model of experiments/panda_primitives.py (LogicLfD):       *)
(* the value types, the Path/Attach/Detach segments, Command, the grasp    *)
(* enumeration, the IK-driven grasp-command generator, the motion          *)
(* generators and the movable-collision test.                              *)
(*                                                                         *)
(* The world (the physics engine's joint and pose state) is one shared     *)
(* variable; every collaborator call that the code makes is appended to    *)
(* the variable calls, in the order the code makes it.                     *)
(***************************************************************************)
EXTENDS Integers, Sequences, FiniteSets, TLC

VARIABLES
    world,        \* engine state: joint values and pose of every body
    calls,        \* collaborator calls made by the running function, in order
    \* ---- Command.reverse
    command,      \* the Command c under test
    reversed1,    \* c.reverse()
    reversed2,    \* c.reverse().reverse()
    rpc,          \* "start" | "reversed" | "reversed2"
    \* ---- BodyPath.iterator
    bpath,        \* the BodyPath p whose iterator() is called
    gens,         \* the generator objects p.iterator() has returned so far
    \* ---- get_free_motion_gen / get_holding_motion_gen / get_motion_gen
    fixed,        \* the generator's fixed obstacle list
    teleport,     \* the generator's teleport flag
    conf1,        \* start configuration handed to fn
    conf2,        \* goal configuration handed to fn
    fluents,      \* fluent list handed to fn
    mcall,        \* which fn was called, with its other arguments
    mresult,      \* what the call returned or raised
    mpc,          \* "start" | "done"
    \* ---- get_movable_collision_test
    tcommand,     \* the Command handed to test
    tbody,        \* the candidate body
    tpose,        \* the candidate BodyPose
    tpc,          \* "start" | "replay" | "done"
    tseg,         \* index in command.body_paths of the segment being replayed
    tstep,        \* how many steps the iterator of that segment has yielded
    replayed,     \* the replay steps made so far, each with the moving bodies
                  \* found colliding with the candidate at that step
    tresult,      \* what test returned
    \* ---- get_ik_fn
    num_attempts, \* the attempt budget of the generator
    iteleport,    \* the generator's teleport flag
    ifixed,       \* the generator's fixed obstacle list
    ipose,        \* the BodyPose handed to fn
    igrasp,       \* the BodyGrasp handed to fn (fn's body is the grasp's body)
    ipc,          \* "start" | "loop" | "done"
    attempts,     \* per attempt begun, the answers the collaborators gave it
    iresult,      \* what fn returned
    \* ---- get_top_grasps / get_grasp_gen
    gw,           \* first horizontal extent of the body (approximate_as_prism)
    gl,           \* second horizontal extent of the body
    gunder,       \* under, as handed to get_top_grasps
    gmax,         \* max_width, as handed to get_top_grasps
    top_grasps,   \* what the call of get_top_grasps returned
    gpc,          \* "start" | "enumerated"
    ggen          \* the generator object gen(body) of get_grasp_gen

worldVars == <<world, calls>>
revVars == <<command, reversed1, reversed2, rpc>>
iterVars == <<bpath, gens>>
motionVars == <<fixed, teleport, conf1, conf2, fluents, mcall, mresult, mpc>>
testVars == <<tcommand, tbody, tpose, tpc, tseg, tstep, replayed, tresult>>
ikVars == <<num_attempts, iteleport, ifixed, ipose, igrasp, ipc, attempts, iresult>>
graspVars == <<gw, gl, gunder, gmax, top_grasps, gpc, ggen>>

vars == <<worldVars, revVars, iterVars, motionVars, testVars, ikVars, graspVars>>

\* What the actions of one component leave alone.
notReverse == <<worldVars, iterVars, motionVars, testVars, ikVars, graspVars>>
notIter == <<revVars, motionVars, testVars, ikVars, graspVars>>
notMotion == <<revVars, iterVars, testVars, ikVars, graspVars>>
notTest == <<revVars, iterVars, motionVars, ikVars, graspVars>>
notIk == <<revVars, iterVars, motionVars, testVars, graspVars>>
notGrasp == <<worldVars, revVars, iterVars, motionVars, testVars, ikVars>>

-----------------------------------------------------------------------------
(* Bounds of the model. *)

MaxPathLen == 2      \* longest configuration sequence of an input Path
MaxSegs == 2         \* most segments of an input Command
MaxGens == 2         \* most generator objects taken from one Path
MaxFluents == 2      \* most fluents handed to a motion generator
MaxAttempts == 2     \* largest attempt budget of the grasp-command generator
MaxExtent == 2       \* largest horizontal extent of a body, in grid units

-----------------------------------------------------------------------------
(* Values. *)

\* Python's None.
None == [kind |-> "None"]

\* Robots are the keys of TOOL_FRAMES; the other bodies are movable blocks.
Robots == {"panda", "iiwa14"}
Blocks == {"block1", "block2"}
Bodies == Robots \cup Blocks

\* TOOL_FRAMES / get_tool_link: the tool link of a robot.
get_tool_link(robot) == IF robot = "panda" THEN "tool_link" ELSE "iiwa_link_ee_kuka"

\* get_movable_joints(body): the default joint list of a body.
get_movable_joints(body) == <<1, 2>>

\* Joint lists a caller may pass explicitly.
JointLists == {<<1, 2>>, <<1>>}

\* A joint-value vector is abstracted to a number: equal numbers, equal vectors.
Configurations == 0 .. MaxPathLen

\* A rigid transform is abstracted to a record with an identifier.
Pose(id) == [kind |-> "Pose", id |-> id]
Poses == {Pose(1), Pose(2)}

\* BodyGrasp.__init__
BodyGrasp(body, grasp_pose, approach_pose, robot, link) ==
    [kind |-> "BodyGrasp", body |-> body, grasp_pose |-> grasp_pose,
     approach_pose |-> approach_pose, robot |-> robot, link |-> link]

\* BodyGrasp.attachment
attachment(grasp) ==
    [kind |-> "Attachment", parent |-> grasp.robot, parent_link |-> grasp.link,
     grasp_pose |-> grasp.grasp_pose, child |-> grasp.body]

\* The grasps used as inputs: one per block, held by the panda.
Grasps == {BodyGrasp(b, Pose(1), Pose(2), "panda", get_tool_link("panda")) : b \in Blocks}

\* BodyPose.__init__
BodyPose(body, pose) == [kind |-> "BodyPose", body |-> body, pose |-> pose]

\* BodyConf.__init__
BodyConf(body, configuration, joints) ==
    [kind |-> "BodyConf", body |-> body, joints |-> joints,
     configuration |-> configuration]

\* BodyPath.__init__
BodyPath(body, path, joints, attachments) ==
    [kind |-> "BodyPath", body |-> body, path |-> path, joints |-> joints,
     attachments |-> attachments]

\* ApplyForce.__init__ under its two subclasses.
Attach(body, robot, link) ==
    [kind |-> "Attach", body |-> body, robot |-> robot, link |-> link]

Detach(body, robot, link) ==
    [kind |-> "Detach", body |-> body, robot |-> robot, link |-> link]

\* Command.__init__
Command(body_paths) == [kind |-> "Command", body_paths |-> body_paths]

-----------------------------------------------------------------------------
(* The world and the collaborator calls that write it. *)

\* The pose of a body held at a link of a robot that stands at configuration q.
HeldPose(att, q) ==
    [kind |-> "Held", parent |-> att.parent, parent_link |-> att.parent_link,
     grasp_pose |-> att.grasp_pose, q |-> q]

InitWorld == [conf |-> [b \in Bodies |-> 0], pose |-> [b \in Bodies |-> Pose(1)]]

\* set_joint_positions(body, joints, values)
set_joint_positions(w, body, joints, values) ==
    [w EXCEPT !.conf[body] = values]

\* set_pose(body, pose)
set_pose(w, body, pose) == [w EXCEPT !.pose[body] = pose]

\* BodyPose.assign
BodyPoseAssign(w, p) == set_pose(w, p.body, p.pose)

\* BodyConf.assign
BodyConfAssign(w, conf) ==
    set_joint_positions(w, conf.body, conf.joints, conf.configuration)

\* BodyGrasp.assign: the attachment puts the held body where the link is.
BodyGraspAssign(w, grasp) ==
    set_pose(w, grasp.body, HeldPose(attachment(grasp), w.conf[grasp.robot]))

-----------------------------------------------------------------------------
(* Collaborator calls of a running function: each writes the world and is   *)
(* recorded. An environment e is [world, calls].                            *)

Env(w, c) == [world |-> w, calls |-> c]

\* conf.assign()
DoConfAssign(e, conf) ==
    Env(BodyConfAssign(e.world, conf),
        Append(e.calls, [fn |-> "set_joint_positions", body |-> conf.body,
                         joints |-> conf.joints, values |-> conf.configuration]))

\* pose.assign()
DoPoseAssign(e, p) ==
    Env(BodyPoseAssign(e.world, p),
        Append(e.calls, [fn |-> "set_pose", body |-> p.body, pose |-> p.pose]))

\* grasp.assign()
DoGraspAssign(e, g) ==
    Env(BodyGraspAssign(e.world, g),
        Append(e.calls, [fn |-> "set_pose", body |-> g.body,
                         pose |-> HeldPose(attachment(g), e.world.conf[g.robot])]))

\* set_joint_positions(body, joints, values)
DoSetJointPositions(e, body, joints, values) ==
    Env(set_joint_positions(e.world, body, joints, values),
        Append(e.calls, [fn |-> "set_joint_positions", body |-> body,
                         joints |-> joints, values |-> values]))

\* for grasp in self.attachments: grasp.assign()
RECURSIVE DoAssignAll(_, _)
DoAssignAll(e, attachments) ==
    IF attachments = <<>> THEN e
    ELSE DoAssignAll(DoGraspAssign(e, Head(attachments)), Tail(attachments))

\* One turn of the loop of BodyPath.iterator, up to "yield i".
IteratorStep(e, p, i) ==
    DoAssignAll(DoSetJointPositions(e, p.body, p.joints, p.path[i + 1]), p.attachments)

-----------------------------------------------------------------------------
(* Segments and Commands used as inputs. *)

\* Configuration sequences 0, 1, ..., n-1 of every length up to MaxPathLen.
PathSeqs == {[i \in 1 .. n |-> i - 1] : n \in 0 .. MaxPathLen}

AttachmentLists == {<<>>} \cup {<<g>> : g \in Grasps}

BodyPaths ==
    {BodyPath("panda", p, j, a) : p \in PathSeqs, j \in JointLists, a \in AttachmentLists}

ApplyForces ==
    {Attach(b, "panda", get_tool_link("panda")) : b \in Blocks}
    \cup {Detach(b, "panda", get_tool_link("panda")) : b \in Blocks}

Segments == BodyPaths \cup ApplyForces

SeqsUpTo(S, n) == UNION {[1 .. k -> S] : k \in 0 .. n}

Commands == {Command(s) : s \in SeqsUpTo(Segments, MaxSegs)}

-----------------------------------------------------------------------------
(* reverse *)

\* list[::-1] and reversed(list)
Reversed(s) == [i \in 1 .. Len(s) |-> s[Len(s) + 1 - i]]

\* A BodyPath.reverse that forgets to pass the joint list on.
BodyPathReverseDefaultJoints(p) ==
    BodyPath(p.body, Reversed(p.path), get_movable_joints(p.body), p.attachments)

\* BodyPath.reverse
BodyPathReverse(p) == BodyPath(p.body, Reversed(p.path), p.joints, p.attachments)

\* Attach.reverse
AttachReverse(s) == Detach(s.body, s.robot, s.link)

\* Detach.reverse
DetachReverse(s) == Attach(s.body, s.robot, s.link)

\* body_path.reverse(), dispatched on the class of the segment
SegmentReverse(s) ==
    CASE s.kind = "BodyPath" -> BodyPathReverse(s)
      [] s.kind = "Attach" -> AttachReverse(s)
      [] s.kind = "Detach" -> DetachReverse(s)

\* A Command.reverse that reverses every segment but keeps their order.
CommandReverseKeepOrder(c) ==
    Command([i \in 1 .. Len(c.body_paths) |-> SegmentReverse(c.body_paths[i])])

\* Command.reverse
CommandReverse(c) ==
    Command([i \in 1 .. Len(c.body_paths) |->
                SegmentReverse(Reversed(c.body_paths)[i])])

InitReverse ==
    /\ command \in Commands
    /\ reversed1 = None
    /\ reversed2 = None
    /\ rpc = "start"

\* r = c.reverse()
CallReverse ==
    /\ rpc = "start"
    /\ reversed1' = CommandReverse(command)
    /\ rpc' = "reversed"
    /\ UNCHANGED <<command, reversed2>>
    /\ UNCHANGED notReverse

\* r.reverse()
CallReverseAgain ==
    /\ rpc = "reversed"
    /\ reversed2' = CommandReverse(reversed1)
    /\ rpc' = "reversed2"
    /\ UNCHANGED <<command, reversed1>>
    /\ UNCHANGED notReverse

-----------------------------------------------------------------------------
(* BodyPath.iterator *)

\* A generator object: i is the index enumerate() hands out next, yielded the
\* indices it has yielded, done whether it has raised StopIteration.
NewGen == [i |-> 0, yielded |-> <<>>, done |-> FALSE]

InitIter ==
    /\ bpath \in BodyPaths
    /\ gens = <<>>

\* p.iterator(): a generator function returns a fresh generator object; none
\* of its body runs before the first next().
CallIterator ==
    /\ Len(gens) < MaxGens
    /\ gens' = Append(gens, NewGen)
    /\ UNCHANGED <<bpath, worldVars>>
    /\ UNCHANGED notIter

\* A generator that keeps its position in the Path object instead of in
\* itself: every generator of the Path goes on where the last one stopped.
GenNextShared(k) ==
    LET at == IF k > 1 /\ gens[k].yielded = <<>> THEN gens[k - 1].i ELSE gens[k].i
    IN /\ k \in DOMAIN gens
       /\ ~gens[k].done
       /\ IF at < Len(bpath.path)
          THEN /\ world' = IteratorStep(Env(world, calls), bpath, at).world
               /\ calls' = IteratorStep(Env(world, calls), bpath, at).calls
               /\ gens' = [gens EXCEPT ![k].i = at + 1,
                                       ![k].yielded = Append(@, at)]
          ELSE /\ gens' = [gens EXCEPT ![k].done = TRUE]
               /\ UNCHANGED worldVars
       /\ UNCHANGED bpath
       /\ UNCHANGED notIter

\* next(gen) on the k-th generator: one turn of the for loop, up to the yield,
\* or StopIteration once enumerate(self.path) is exhausted.
GenNext(k) ==
    /\ k \in DOMAIN gens
    /\ ~gens[k].done
    /\ IF gens[k].i < Len(bpath.path)
       THEN /\ world' = IteratorStep(Env(world, calls), bpath, gens[k].i).world
            /\ calls' = IteratorStep(Env(world, calls), bpath, gens[k].i).calls
            /\ gens' = [gens EXCEPT ![k].i = @ + 1,
                                    ![k].yielded = Append(@, gens[k].i)]
       ELSE /\ gens' = [gens EXCEPT ![k].done = TRUE]
            /\ UNCHANGED worldVars
    /\ UNCHANGED bpath
    /\ UNCHANGED notIter

-----------------------------------------------------------------------------
(* Fluents *)

\* ('atpose', o, p)
AtPose(o, p) == [name |-> "atpose", o |-> o, p |-> p]

\* ('athandpose', r, o, g)
AtHandPose(r, o, g) == [name |-> "athandpose", r |-> r, o |-> o, g |-> g]

\* A fluent of any other predicate.
OtherFluent(o, s) == [name |-> "on", top |-> o, bottom |-> s]

Fluents ==
    {AtPose(b, BodyPose(b, Pose(2))) : b \in Blocks}
    \cup {AtHandPose(g.robot, g.body, g) : g \in Grasps}
    \cup {OtherFluent("block1", "table")}

\* A fold of the fluents that assigns the poses and forgets the obstacles.
RECURSIVE assign_fluent_state_no_obstacles(_, _, _, _)
assign_fluent_state_no_obstacles(fs, obstacles, grasp, e) ==
    IF fs = <<>> THEN [obstacles |-> obstacles, grasp |-> grasp, env |-> e]
    ELSE LET fluent == Head(fs)
         IN CASE fluent.name = "atpose" ->
                    assign_fluent_state_no_obstacles(Tail(fs), obstacles, grasp,
                                                     DoPoseAssign(e, fluent.p))
              [] fluent.name = "athandpose" ->
                    assign_fluent_state_no_obstacles(Tail(fs), obstacles, fluent.g,
                                                     DoGraspAssign(e, fluent.g))
              [] OTHER ->
                    assign_fluent_state_no_obstacles(Tail(fs), obstacles, grasp, e)

\* assign_fluent_state(fluents), started with obstacles = [] and grasp = None:
\* the obstacles, the grasp and the environment it leaves.
RECURSIVE assign_fluent_state(_, _, _, _)
assign_fluent_state(fs, obstacles, grasp, e) ==
    IF fs = <<>> THEN [obstacles |-> obstacles, grasp |-> grasp, env |-> e]
    ELSE LET fluent == Head(fs)
         IN CASE fluent.name = "atpose" ->
                    assign_fluent_state(Tail(fs), Append(obstacles, fluent.o), grasp,
                                        DoPoseAssign(e, fluent.p))
              [] fluent.name = "athandpose" ->
                    assign_fluent_state(Tail(fs), obstacles, fluent.g,
                                        DoGraspAssign(e, fluent.g))
              [] OTHER ->
                    assign_fluent_state(Tail(fs), obstacles, grasp, e)

-----------------------------------------------------------------------------
(* Motion generators *)

\* The robot the generators are built for (the panda of the experiments).
robot == "panda"

\* What a call ends with.
Raise(exc) == [kind |-> "raise", exc |-> exc]
ReturnCommand(c) == [kind |-> "tuple", command |-> c]

\* A planned path, as the planners return it.
PathResult(path) == [kind |-> "path", path |-> path]

\* plan_joint_motion / plan_joint_motion_interpolation: no path, or a path from
\* the robot's current joint values to end_conf, direct or through a waypoint.
PlannerResults(w, body, end_conf) ==
    {None, PathResult(<<w.conf[body], end_conf>>),
     PathResult(<<w.conf[body], 1 - end_conf, end_conf>>)}

\* The record of a planner call.
PlanCall(fn, e, joints, end_conf, obstacles, attachments) ==
    Append(e.calls, [fn |-> fn, body |-> robot, joints |-> joints,
                     end_conf |-> end_conf, start |-> e.world.conf[robot],
                     obstacles |-> obstacles, attachments |-> attachments])

\* An assertion that compares the bodies and forgets the joint lists.
SameBodyOnly == conf1.body = conf2.body

\* assert ((conf1.body == conf2.body) and (conf1.joints == conf2.joints))
SameBodyAndJoints == conf1.body = conf2.body /\ conf1.joints = conf2.joints

BodyConfs1 == {BodyConf(b, q, j) : b \in Robots, j \in JointLists, q \in {0, 1}}
BodyConfs2 == {BodyConf(b, q, j) : b \in Robots, j \in JointLists, q \in {0, 1}}

InitMotion ==
    /\ fixed \in {<<>>, <<"table">>}
    /\ teleport \in BOOLEAN
    /\ conf1 \in BodyConfs1
    /\ conf2 \in BodyConfs2
    /\ fluents \in SeqsUpTo(Fluents, MaxFluents)
    /\ mcall = None
    /\ mresult = None
    /\ mpc = "start"

\* The end of a call: what it returned or raised and the environment it left.
MotionDone(call, result, e) ==
    /\ mpc' = "done"
    /\ mcall' = call
    /\ mresult' = result
    /\ world' = e.world
    /\ calls' = e.calls
    /\ UNCHANGED <<fixed, teleport, conf1, conf2, fluents>>
    /\ UNCHANGED notMotion

\* get_free_motion_gen(robot, fixed, teleport).fn(conf1, conf2, fluents)
FreeMotion ==
    /\ mpc = "start"
    /\ LET call == [gen |-> "free"]
           e0 == Env(world, calls)
       IN IF ~SameBodyAndJoints THEN MotionDone(call, Raise("AssertionError"), e0)
          ELSE IF teleport
          THEN MotionDone(call,
                   ReturnCommand(Command(<<BodyPath(robot,
                       <<conf1.configuration, conf2.configuration>>, conf2.joints, <<>>)>>)),
                   e0)
          ELSE LET e1 == DoConfAssign(e0, conf1)
                   st == assign_fluent_state(fluents, <<>>, None, e1)
                   obstacles == st.obstacles \o fixed
                   e2 == Env(st.env.world,
                             PlanCall("plan_joint_motion", st.env, conf2.joints,
                                      conf2.configuration, obstacles, <<>>))
               IN \E path \in PlannerResults(st.env.world, robot, conf2.configuration) :
                     IF path = None THEN MotionDone(call, None, e2)
                     ELSE MotionDone(call,
                              ReturnCommand(Command(<<BodyPath(robot, path.path,
                                                               conf2.joints, <<>>)>>)),
                              e2)

\* get_holding_motion_gen(robot, fixed, teleport).fn(conf1, conf2, body, grasp, fluents)
HoldingMotion ==
    /\ mpc = "start"
    /\ \E grasp \in Grasps :
       LET call == [gen |-> "holding", body |-> grasp.body, grasp |-> grasp]
           e0 == Env(world, calls)
       IN IF ~SameBodyAndJoints THEN MotionDone(call, Raise("AssertionError"), e0)
          ELSE IF teleport
          THEN MotionDone(call,
                   ReturnCommand(Command(<<BodyPath(robot,
                       <<conf1.configuration, conf2.configuration>>, conf2.joints,
                       <<grasp>>)>>)),
                   e0)
          ELSE LET e1 == DoConfAssign(e0, conf1)
                   st == assign_fluent_state(fluents, <<>>, None, e1)
                   obstacles == st.obstacles \o fixed
                   e2 == Env(st.env.world,
                             PlanCall("plan_joint_motion", st.env, conf2.joints,
                                      conf2.configuration, obstacles,
                                      <<attachment(grasp)>>))
               IN \E path \in PlannerResults(st.env.world, robot, conf2.configuration) :
                     IF path = None THEN MotionDone(call, None, e2)
                     ELSE MotionDone(call,
                              ReturnCommand(Command(<<BodyPath(robot, path.path,
                                                               conf2.joints, <<grasp>>)>>)),
                              e2)

\* The tail of get_motion_gen's fn, from "if grasp is None:" on; bound says
\* whether the local variable grasp has been assigned on the way there.
MotionGenCommand(bound, grasp, path) ==
    IF ~bound THEN Raise("UnboundLocalError")
    ELSE IF grasp = None
    THEN ReturnCommand(Command(<<BodyPath(robot, path, conf2.joints, <<>>)>>))
    ELSE ReturnCommand(Command(<<BodyPath(robot, path, conf2.joints, <<grasp>>)>>))

\* get_motion_gen(fixed, teleport).fn(robot, conf1, conf2, fluents)
MotionGen ==
    /\ mpc = "start"
    /\ LET call == [gen |-> "unified", robot |-> robot]
           e0 == Env(world, calls)
       IN IF ~SameBodyAndJoints THEN MotionDone(call, Raise("AssertionError"), e0)
          ELSE IF teleport
          THEN MotionDone(call,
                   MotionGenCommand(FALSE, None,
                                    <<conf1.configuration, conf2.configuration>>),
                   e0)
          ELSE LET e1 == DoConfAssign(e0, conf1)
                   st == assign_fluent_state(fluents, <<>>, None, e1)
                   obstacles == fixed \o st.obstacles
                   atts == IF st.grasp = None THEN <<>> ELSE <<attachment(st.grasp)>>
                   e2 == Env(st.env.world,
                             PlanCall("plan_joint_motion_interpolation", st.env,
                                      conf2.joints, conf2.configuration, obstacles, atts))
               IN \E path \in PlannerResults(st.env.world, robot, conf2.configuration) :
                     IF path = None THEN MotionDone(call, None, e2)
                     ELSE MotionDone(call, MotionGenCommand(TRUE, st.grasp, path.path), e2)

-----------------------------------------------------------------------------
(* get_movable_collision_test *)

\* What a call returns.
Return(v) == [kind |-> "return", value |-> v]

\* A BodyPath.bodies that forgets the attached bodies.
BodyPathBodiesOwn(p) == {p.body}

\* BodyPath.bodies
BodyPathBodies(p) ==
    {p.body} \cup {p.attachments[i].body : i \in DOMAIN p.attachments}

\* ApplyForce.bodies
ApplyForceBodies(s) == {s.body, s.robot}

\* path.bodies(), dispatched on the class of the segment
SegmentBodies(s) ==
    IF s.kind = "BodyPath" THEN BodyPathBodies(s) ELSE ApplyForceBodies(s)

\* Command.bodies
CommandBodies(c) == UNION {SegmentBodies(c.body_paths[i]) : i \in DOMAIN c.body_paths}

\* len(list(path.iterator())): a Path yields once per configuration, an Attach
\* or a Detach returns [].
IteratorLength(s) == IF s.kind = "BodyPath" THEN Len(s.path) ELSE 0

\* The Commands handed to test: Paths over the robot's default joints.
TestCommands ==
    {Command(s) : s \in SeqsUpTo(
        {p \in BodyPaths : p.joints = get_movable_joints(p.body)} \cup ApplyForces,
        MaxSegs)}

InitTest ==
    /\ tcommand \in TestCommands
    /\ tbody \in Blocks
    /\ tpose \in {BodyPose(tbody, q) : q \in Poses}
    /\ tpc = "start"
    /\ tseg = 0
    /\ tstep = 0
    /\ replayed = <<>>
    /\ tresult = None

\* test(command, body, pose), down to the head of the loop over the segments.
TestStart ==
    /\ tpc = "start"
    /\ IF tbody \in CommandBodies(tcommand)
       THEN /\ tresult' = Return(FALSE)
            /\ tpc' = "done"
            /\ UNCHANGED <<worldVars, tseg>>
       ELSE /\ world' = DoPoseAssign(Env(world, calls), tpose).world
            /\ calls' = DoPoseAssign(Env(world, calls), tpose).calls
            /\ tpc' = "replay"
            /\ tseg' = 1
            /\ UNCHANGED tresult
    /\ UNCHANGED <<tcommand, tbody, tpose, tstep, replayed>>
    /\ UNCHANGED notTest

\* A test that asks only whether the Path's own body collides.
TestStepOwnBody ==
    /\ tpc = "replay"
    /\ tseg <= Len(tcommand.body_paths)
    /\ LET path == tcommand.body_paths[tseg]
           moving == SegmentBodies(path)
       IN /\ tbody \notin moving
          /\ tstep < IteratorLength(path)
          /\ world' = IteratorStep(Env(world, calls), path, tstep).world
          /\ calls' = IteratorStep(Env(world, calls), path, tstep).calls
          /\ \E hit \in SUBSET moving :
                /\ replayed' = Append(replayed,
                                      [seg |-> tseg, step |-> tstep, hit |-> hit])
                /\ IF path.body \in hit
                   THEN tresult' = Return(TRUE) /\ tpc' = "done" /\ UNCHANGED tstep
                   ELSE tstep' = tstep + 1 /\ UNCHANGED <<tresult, tpc>>
    /\ UNCHANGED <<tcommand, tbody, tpose, tseg>>
    /\ UNCHANGED notTest

\* One turn of "for _ in path.iterator()": the iterator moves the segment's
\* bodies to the next step; hit is the set of moving bodies that
\* pairwise_collision finds colliding with the candidate there.
TestStep ==
    /\ tpc = "replay"
    /\ tseg <= Len(tcommand.body_paths)
    /\ LET path == tcommand.body_paths[tseg]
           moving == SegmentBodies(path)
       IN /\ tbody \notin moving
          /\ tstep < IteratorLength(path)
          /\ world' = IteratorStep(Env(world, calls), path, tstep).world
          /\ calls' = IteratorStep(Env(world, calls), path, tstep).calls
          /\ \E hit \in SUBSET moving :
                /\ replayed' = Append(replayed,
                                      [seg |-> tseg, step |-> tstep, hit |-> hit])
                /\ IF hit # {}
                   THEN tresult' = Return(TRUE) /\ tpc' = "done" /\ UNCHANGED tstep
                   ELSE tstep' = tstep + 1 /\ UNCHANGED <<tresult, tpc>>
    /\ UNCHANGED <<tcommand, tbody, tpose, tseg>>
    /\ UNCHANGED notTest

\* The end of a segment: "continue" for a segment that moves the candidate,
\* or its iterator is exhausted; the loop goes on with the next segment.
TestNextSegment ==
    /\ tpc = "replay"
    /\ tseg <= Len(tcommand.body_paths)
    /\ LET path == tcommand.body_paths[tseg]
       IN tbody \in SegmentBodies(path) \/ tstep = IteratorLength(path)
    /\ tseg' = tseg + 1
    /\ tstep' = 0
    /\ UNCHANGED <<tcommand, tbody, tpose, tpc, replayed, tresult, worldVars>>
    /\ UNCHANGED notTest

\* The loop over the segments is over: return False.
TestReturnFalse ==
    /\ tpc = "replay"
    /\ tseg > Len(tcommand.body_paths)
    /\ tresult' = Return(FALSE)
    /\ tpc' = "done"
    /\ UNCHANGED <<tcommand, tbody, tpose, tseg, tstep, replayed, worldVars>>
    /\ UNCHANGED notTest

-----------------------------------------------------------------------------
(* get_ik_fn *)

\* end_effector_from_body(pose.pose, grasp.grasp_pose)
end_effector_from_body(pose, grasp_pose) ==
    [kind |-> "gripper_pose", pose |-> pose, grasp_pose |-> grasp_pose]

\* approach_from_grasp(grasp.approach_pose, gripper_pose)
approach_from_grasp(approach_pose, gripper_pose) ==
    [kind |-> "approach_pose", approach_pose |-> approach_pose,
     gripper_pose |-> gripper_pose]

\* A joint-value vector returned by a solver.
Solution(q) == [kind |-> "solution", q |-> q]

\* inverse_kinematics(robot, link, target): no solution, or the joint values
\* that put the link at the target (0 for an approach pose, 1 for a grasp pose).
IKResults(target) ==
    {None, Solution(IF target.kind = "approach_pose" THEN 0 ELSE 1)}

\* sample_fn(): a random joint-value vector.
SampleConfs == {0, 1}

InitIk ==
    /\ num_attempts \in 0 .. MaxAttempts
    /\ iteleport \in BOOLEAN
    /\ ifixed \in {<<>>, <<"table">>}
    /\ igrasp \in Grasps
    /\ ipose \in {BodyPose(igrasp.body, Pose(2))}
    /\ ipc = "start"
    /\ attempts = <<>>
    /\ iresult = None

\* fn(body, pose, grasp) down to the head of the for loop.
IkStart ==
    /\ ipc = "start"
    /\ ipc' = "loop"
    /\ UNCHANGED <<num_attempts, iteleport, ifixed, ipose, igrasp, attempts, iresult>>
    /\ UNCHANGED worldVars
    /\ UNCHANGED notIk

\* "continue": the attempt is over without a result.
IkContinue(e, answers) ==
    /\ attempts' = Append(attempts, answers)
    /\ world' = e.world
    /\ calls' = e.calls
    /\ UNCHANGED <<ipc, iresult>>

\* "return (conf, command)"
IkReturn(e, answers, conf, cmd) ==
    /\ attempts' = Append(attempts, answers)
    /\ world' = e.world
    /\ calls' = e.calls
    /\ ipc' = "done"
    /\ iresult' = [kind |-> "tuple", conf |-> conf, command |-> cmd]

\* A Command whose retreat Path repeats the approach Path instead of
\* reversing it.
IkCommandNoReverse(body, grasp, path) ==
    Command(<<BodyPath(robot, path, get_movable_joints(robot), <<>>),
              Attach(body, robot, grasp.link),
              BodyPath(robot, path, get_movable_joints(robot), <<grasp>>)>>)

\* The Command of a successful attempt.
IkCommand(body, grasp, path) ==
    Command(<<BodyPath(robot, path, get_movable_joints(robot), <<>>),
              Attach(body, robot, grasp.link),
              BodyPath(robot, Reversed(path), get_movable_joints(robot), <<grasp>>)>>)

\* A loop that makes one attempt more than its budget.
MoreAttemptsOffByOne == Len(attempts) <= num_attempts

\* range(num_attempts) has a turn left.
MoreAttempts == Len(attempts) < num_attempts

\* One turn of "for _ in range(num_attempts)": every failure is a "continue".
IkAttempt ==
    /\ ipc = "loop"
    /\ MoreAttempts
    /\ LET body == igrasp.body
           movable_joints == get_movable_joints(robot)
           obstacles == <<body>> \o ifixed
           gripper_pose == end_effector_from_body(ipose.pose, igrasp.grasp_pose)
           approach_pose == approach_from_grasp(igrasp.approach_pose, gripper_pose)
       IN \E sample \in SampleConfs, q_approach \in IKResults(approach_pose) :
          LET e1 == DoSetJointPositions(Env(world, calls), robot, movable_joints, sample)
              e2 == Env(e1.world, Append(e1.calls,
                        [fn |-> "inverse_kinematics", link |-> igrasp.link,
                         target |-> approach_pose, result |-> q_approach]))
              a2 == [q_approach |-> q_approach]
          IN IF q_approach = None THEN IkContinue(e2, a2)
             ELSE \E hit_approach \in BOOLEAN :
             LET e3 == Env(e2.world, Append(e2.calls,
                           [fn |-> "pairwise_collision", obstacles |-> obstacles,
                            result |-> hit_approach]))
                 a3 == [q_approach |-> q_approach, hit_approach |-> hit_approach]
             IN IF hit_approach THEN IkContinue(e3, a3)
                ELSE \E q_grasp \in IKResults(gripper_pose) :
                LET conf == BodyConf(robot, q_approach.q, get_movable_joints(robot))
                    e4 == Env(e3.world, Append(e3.calls,
                              [fn |-> "inverse_kinematics", link |-> igrasp.link,
                               target |-> gripper_pose, result |-> q_grasp]))
                    a4 == [q_approach |-> q_approach, hit_approach |-> hit_approach,
                           q_grasp |-> q_grasp]
                IN IF q_grasp = None THEN IkContinue(e4, a4)
                   ELSE \E hit_grasp \in BOOLEAN :
                   LET e5 == Env(e4.world, Append(e4.calls,
                                 [fn |-> "pairwise_collision", obstacles |-> obstacles,
                                  result |-> hit_grasp]))
                       a5 == [q_approach |-> q_approach, hit_approach |-> hit_approach,
                              q_grasp |-> q_grasp, hit_grasp |-> hit_grasp]
                   IN IF hit_grasp THEN IkContinue(e5, a5)
                      ELSE IF iteleport
                      THEN IkReturn(e5, a5, conf,
                                    IkCommand(body, igrasp, <<q_approach.q, q_grasp.q>>))
                      ELSE LET e6 == DoConfAssign(e5, conf)
                           IN \E path \in PlannerResults(e6.world, robot, q_grasp.q) :
                              LET e7 == Env(e6.world,
                                            PlanCall("plan_direct_joint_motion", e6,
                                                     conf.joints, q_grasp.q, obstacles,
                                                     <<>>))
                                  a7 == [q_approach |-> q_approach,
                                         hit_approach |-> hit_approach,
                                         q_grasp |-> q_grasp, hit_grasp |-> hit_grasp,
                                         path |-> path]
                              IN IF path = None THEN IkContinue(e7, a7)
                                 ELSE IkReturn(e7, a7, conf,
                                               IkCommand(body, igrasp, path.path))
    /\ UNCHANGED <<num_attempts, iteleport, ifixed, ipose, igrasp>>
    /\ UNCHANGED notIk

\* The for loop is exhausted: "return None".
IkReturnNone ==
    /\ ipc = "loop"
    /\ ~MoreAttempts
    /\ ipc' = "done"
    /\ iresult' = None
    /\ UNCHANGED <<num_attempts, iteleport, ifixed, ipose, igrasp, attempts>>
    /\ UNCHANGED worldVars
    /\ UNCHANGED notIk

-----------------------------------------------------------------------------
(* get_top_grasps / get_grasp_gen *)

\* GRASP_LENGTH
GRASP_LENGTH == 0

\* INF (np.inf): above every extent.
INF == MaxExtent + 1

\* multiply(tool_pose, translate_z, rotate_z, reflect_z, translate_center,
\* body_pose): of one body only tool_pose, the grasp_length in translate_z and
\* the yaw of rotate_z (in quarter turns) tell two products apart.
TopGrasp(tool_pose, grasp_length, quarter_turns) ==
    [kind |-> "top_grasp", tool_pose |-> tool_pose, grasp_length |-> grasp_length,
     rotate_z |-> quarter_turns]

\* range(1 + under)
RangeUnder(under) == IF under THEN <<0, 1>> ELSE <<0>>

\* A get_top_grasps that compares with < instead of <=.
get_top_grasps_strict(w, l, under, tool_pose, max_width, grasp_length) ==
    (IF w < max_width
     THEN [k \in 1 .. Len(RangeUnder(under)) |->
              TopGrasp(tool_pose, grasp_length, 1 + 2 * RangeUnder(under)[k])]
     ELSE <<>>)
    \o (IF l < max_width
        THEN [k \in 1 .. Len(RangeUnder(under)) |->
                 TopGrasp(tool_pose, grasp_length, 2 * RangeUnder(under)[k])]
        ELSE <<>>)

\* get_top_grasps, for a body of horizontal extents (w, l): rotate_z is
\* pi/2 + i*pi for the first axis and i*pi for the second.
get_top_grasps(w, l, under, tool_pose, max_width, grasp_length) ==
    (IF w <= max_width
     THEN [k \in 1 .. Len(RangeUnder(under)) |->
              TopGrasp(tool_pose, grasp_length, 1 + 2 * RangeUnder(under)[k])]
     ELSE <<>>)
    \o (IF l <= max_width
        THEN [k \in 1 .. Len(RangeUnder(under)) |->
                 TopGrasp(tool_pose, grasp_length, 2 * RangeUnder(under)[k])]
        ELSE <<>>)

\* GRASP_INFO['top'].get_grasps
GraspInfoGetGrasps(w, l) == get_top_grasps(w, l, TRUE, "Pose()", INF, 0)

\* GRASP_INFO['top'].approach_pose
GraspInfoApproachPose == [kind |-> "Pose", id |-> "0.1*Point(z=1)"]

\* The generator object gen(body) before its first next().
NewGraspGen ==
    [started |-> FALSE, grasp_poses |-> <<>>, i |-> 0, yielded |-> <<>>, done |-> FALSE]

InitGrasp ==
    /\ gw \in 1 .. MaxExtent
    /\ gl \in 1 .. MaxExtent
    /\ gunder \in BOOLEAN
    /\ gmax \in (1 .. MaxExtent) \cup {INF}
    /\ top_grasps = <<>>
    /\ gpc = "start"
    /\ ggen = NewGraspGen

\* get_top_grasps(body, under=under, max_width=max_width)
CallTopGrasps ==
    /\ gpc = "start"
    /\ top_grasps' = get_top_grasps(gw, gl, gunder, "TOOL_POSE", gmax, GRASP_LENGTH)
    /\ gpc' = "enumerated"
    /\ UNCHANGED <<gw, gl, gunder, gmax, ggen>>
    /\ UNCHANGED notGrasp

\* next() on gen(body) of get_grasp_gen(robot): the first call enumerates the
\* grasp poses; every call yields the next BodyGrasp or ends the stream.
GraspGenNext ==
    /\ ~ggen.done
    /\ LET grasp_poses == IF ggen.started THEN ggen.grasp_poses
                          ELSE GraspInfoGetGrasps(gw, gl)
       IN IF ggen.i < Len(grasp_poses)
          THEN ggen' = [ggen EXCEPT
                          !.started = TRUE,
                          !.grasp_poses = grasp_poses,
                          !.i = @ + 1,
                          !.yielded = Append(@, BodyGrasp("block1",
                                          grasp_poses[ggen.i + 1], GraspInfoApproachPose,
                                          robot, get_tool_link(robot)))]
          ELSE ggen' = [ggen EXCEPT !.started = TRUE, !.grasp_poses = grasp_poses,
                                    !.done = TRUE]
    /\ UNCHANGED <<gw, gl, gunder, gmax, top_grasps, gpc>>
    /\ UNCHANGED notGrasp

-----------------------------------------------------------------------------
(* Specifications *)

IdleWorld == world = InitWorld /\ calls = <<>>
IdleReverse == command = Command(<<>>) /\ reversed1 = None /\ reversed2 = None /\ rpc = "idle"
IdleIter == bpath = BodyPath("panda", <<>>, get_movable_joints("panda"), <<>>) /\ gens = <<>>

IdleMotion ==
    /\ fixed = <<>> /\ teleport = FALSE
    /\ conf1 = BodyConf(robot, 0, get_movable_joints(robot))
    /\ conf2 = BodyConf(robot, 0, get_movable_joints(robot))
    /\ fluents = <<>> /\ mcall = None /\ mresult = None /\ mpc = "idle"

IdleTest ==
    /\ tcommand = Command(<<>>) /\ tbody = "block1" /\ tpose = BodyPose("block1", Pose(1))
    /\ tpc = "idle" /\ tseg = 0 /\ tstep = 0 /\ replayed = <<>> /\ tresult = None

IdleIk ==
    /\ num_attempts = 0 /\ iteleport = FALSE /\ ifixed = <<>>
    /\ ipose = BodyPose("block1", Pose(1))
    /\ igrasp = BodyGrasp("block1", Pose(1), Pose(2), robot, get_tool_link(robot))
    /\ ipc = "idle" /\ attempts = <<>> /\ iresult = None

IdleGrasp ==
    /\ gw = 1 /\ gl = 1 /\ gunder = FALSE /\ gmax = INF /\ top_grasps = <<>>
    /\ gpc = "idle" /\ ggen = [NewGraspGen EXCEPT !.done = TRUE]

NextReverse == CallReverse \/ CallReverseAgain
InitSpecReverse == IdleWorld /\ InitReverse /\ IdleIter /\ IdleMotion /\ IdleTest /\ IdleIk /\ IdleGrasp
SpecReverse == InitSpecReverse /\ [][NextReverse]_vars

NextIter == CallIterator \/ \E k \in 1 .. MaxGens : GenNext(k)
InitSpecIter == IdleWorld /\ IdleReverse /\ InitIter /\ IdleMotion /\ IdleTest /\ IdleIk /\ IdleGrasp
SpecIter == InitSpecIter /\ [][NextIter]_vars

NextMotion == FreeMotion \/ HoldingMotion \/ MotionGen
InitSpecMotion == IdleWorld /\ IdleReverse /\ IdleIter /\ InitMotion /\ IdleTest /\ IdleIk /\ IdleGrasp
SpecMotion == InitSpecMotion /\ [][NextMotion]_vars

NextTest == TestStart \/ TestStep \/ TestNextSegment \/ TestReturnFalse
InitSpecTest == IdleWorld /\ IdleReverse /\ IdleIter /\ IdleMotion /\ InitTest /\ IdleIk /\ IdleGrasp
SpecTest == InitSpecTest /\ [][NextTest]_vars

NextIk == IkStart \/ IkAttempt \/ IkReturnNone
InitSpecIk == IdleWorld /\ IdleReverse /\ IdleIter /\ IdleMotion /\ IdleTest /\ InitIk /\ IdleGrasp
SpecIk == InitSpecIk /\ [][NextIk]_vars

NextGrasp == CallTopGrasps \/ GraspGenNext
InitSpecGrasp ==
    IdleWorld /\ IdleReverse /\ IdleIter /\ IdleMotion /\ IdleTest /\ IdleIk /\ InitGrasp
SpecGrasp == InitSpecGrasp /\ [][NextGrasp]_vars

-----------------------------------------------------------------------------
(* Claims about Command.reverse *)

\* Two segments of the same kind with the same content.
SameSegment(s, t) ==
    /\ s.kind = t.kind
    /\ s.body = t.body
    /\ IF s.kind = "BodyPath"
       THEN /\ s.joints = t.joints
            /\ s.path = t.path
            /\ s.attachments = t.attachments
       ELSE /\ s.robot = t.robot
            /\ s.link = t.link

\* t is what the composition law asks of reverse(s).
IsReverseOfSegment(t, s) ==
    CASE s.kind = "BodyPath" ->
            /\ t.kind = "BodyPath"
            /\ t.body = s.body
            /\ t.joints = s.joints
            /\ t.attachments = s.attachments
            /\ Len(t.path) = Len(s.path)
            /\ \A k \in 1 .. Len(s.path) : t.path[k] = s.path[Len(s.path) + 1 - k]
      [] s.kind = "Attach" ->
            t = [kind |-> "Detach", body |-> s.body, robot |-> s.robot, link |-> s.link]
      [] s.kind = "Detach" ->
            t = [kind |-> "Attach", body |-> s.body, robot |-> s.robot, link |-> s.link]

\* C1: c.reverse().reverse() has as many segments as c, in the same order,
\* each equal to the original in kind and content (body, joints, configuration
\* sequence and attachments of a Path; body, robot and link of an Attach or
\* a Detach).
C1_ReverseInvolution ==
    rpc = "reversed2" =>
        /\ reversed2.kind = "Command"
        /\ Len(reversed2.body_paths) = Len(command.body_paths)
        /\ \A i \in 1 .. Len(command.body_paths) :
              SameSegment(reversed2.body_paths[i], command.body_paths[i])

\* A Command of a Path with explicit joints, two configurations and a grasp
\* attached, followed by an Attach, has been reversed twice.
C1_Witness ==
    /\ rpc = "reversed2"
    /\ Len(command.body_paths) = 2
    /\ command.body_paths[1].kind = "BodyPath"
    /\ command.body_paths[1].joints # get_movable_joints("panda")
    /\ Len(command.body_paths[1].path) = 2
    /\ command.body_paths[1].attachments # <<>>
    /\ command.body_paths[2].kind = "Attach"

\* C2: reverse() of Command([s1,...,sn]) returns a new Command whose segments
\* are [reverse(sn),...,reverse(s1)]: a Path with the configuration sequence
\* reversed and the same body, joints and attachments, a Detach for an Attach
\* and an Attach for a Detach; the original Command is left as it was.
C2_ReverseComposition ==
    [][(rpc = "start" /\ rpc' = "reversed") =>
          /\ command' = command
          /\ reversed1'.kind = "Command"
          /\ Len(reversed1'.body_paths) = Len(command.body_paths)
          /\ \A i \in 1 .. Len(command.body_paths) :
                IsReverseOfSegment(reversed1'.body_paths[i],
                    command.body_paths[Len(command.body_paths) + 1 - i])]_vars

\* A Command of a Detach followed by a two-configuration Path has been reversed.
C2_Witness ==
    /\ rpc = "reversed"
    /\ Len(command.body_paths) = 2
    /\ command.body_paths[1].kind = "Detach"
    /\ command.body_paths[2].kind = "BodyPath"
    /\ Len(command.body_paths[2].path) = 2
    /\ reversed1.body_paths[1].kind = "BodyPath"

-----------------------------------------------------------------------------
(* Claims about BodyPath.iterator *)

\* C3: an iteration of p.iterator() yields the step indices 0, 1, ..., n-1 in
\* that order, n the length of p's configuration sequence, and then ends;
\* every fresh iteration starts again from 0, whatever the earlier ones did.
C3_IteratorRestartable ==
    \A k \in DOMAIN gens :
        /\ Len(gens[k].yielded) <= Len(bpath.path)
        /\ \A j \in 1 .. Len(gens[k].yielded) : gens[k].yielded[j] = j - 1
        /\ gens[k].done => Len(gens[k].yielded) = Len(bpath.path)
        /\ ~gens[k].done => ENABLED GenNext(k)

\* The first iteration was abandoned after index 0 of a two-step Path and a
\* second, fresh one has run to its end.
C3_Witness ==
    /\ Len(bpath.path) = 2
    /\ Len(gens) = 2
    /\ gens[1].yielded = <<0>>
    /\ ~gens[1].done
    /\ gens[2].yielded = <<0, 1>>
    /\ gens[2].done

-----------------------------------------------------------------------------
(* Claims about the motion generators *)

\* C4: a call of a motion generator (free, holding or unified; teleport or
\* not) with conf1.body # conf2.body or conf1.joints # conf2.joints raises
\* the assertion's error: it returns neither None nor a Command, and it has
\* assigned nothing to the world and has not called the planner.
C4_MismatchAborts ==
    (mpc = "done" /\ (conf1.body # conf2.body \/ conf1.joints # conf2.joints)) =>
        /\ mresult = [kind |-> "raise", exc |-> "AssertionError"]
        /\ calls = <<>>
        /\ world = InitWorld

\* The unified generator, in teleport mode, was called with two configurations
\* of one body and different joint lists.
C4_Witness ==
    /\ mpc = "done"
    /\ mcall.gen = "unified"
    /\ teleport
    /\ fluents # <<>>
    /\ conf1.body = conf2.body
    /\ conf1.joints # conf2.joints

\* The grasps asserted by the 'athandpose' fluents of a fluent list.
ActiveGrasps(fs) == {fs[i].g : i \in {j \in DOMAIN fs : fs[j].name = "athandpose"}}

\* C9: for two configurations of the same body and joint list the unified
\* generator, teleport or not and whatever the fluents, never raises: it
\* returns None, or a Command of exactly one Path over conf2's joints whose
\* attachments are [grasp] for the grasp of an 'athandpose' fluent and empty
\* when there is no such fluent.
C9_UnifiedNeverRaises ==
    (mpc = "done" /\ mcall.gen = "unified"
       /\ conf1.body = conf2.body /\ conf1.joints = conf2.joints) =>
        \/ mresult = None
        \/ /\ mresult.kind = "tuple"
           /\ Len(mresult.command.body_paths) = 1
           /\ mresult.command.body_paths[1].kind = "BodyPath"
           /\ mresult.command.body_paths[1].joints = conf2.joints
           /\ IF ActiveGrasps(fluents) = {}
              THEN mresult.command.body_paths[1].attachments = <<>>
              ELSE \E g \in ActiveGrasps(fluents) :
                      mresult.command.body_paths[1].attachments = <<g>>

\* The same statement for the calls that do not teleport.
UnifiedPlannedNeverRaises == teleport \/ C9_UnifiedNeverRaises

\* The one segment of the Command a motion generator returned.
ReturnedPath == mresult.command.body_paths[1]

\* C11: whenever the free-motion generator returns a result for two
\* configurations of the same body and joint list, the result is a Command of
\* exactly one segment, a Path over conf2's joints with no attachments, whose
\* first configuration is conf1's joint values and whose last configuration
\* is conf2's joint values; in teleport mode the Path is [conf1, conf2], in
\* non-teleport mode the planner was started from the world left after the
\* assignment of conf1 and of the fluent state.
C11_FreeMotionEndpoints ==
    (mpc = "done" /\ mcall.gen = "free" /\ mresult # None
       /\ conf1.body = conf2.body /\ conf1.joints = conf2.joints) =>
        /\ mresult.kind = "tuple"
        /\ mresult.command.kind = "Command"
        /\ Len(mresult.command.body_paths) = 1
        /\ ReturnedPath.kind = "BodyPath"
        /\ ReturnedPath.joints = conf2.joints
        /\ ReturnedPath.attachments = <<>>
        /\ Len(ReturnedPath.path) >= 1
        /\ ReturnedPath.path[1] = conf1.configuration
        /\ ReturnedPath.path[Len(ReturnedPath.path)] = conf2.configuration
        /\ IF teleport
           THEN /\ ReturnedPath.path = <<conf1.configuration, conf2.configuration>>
                /\ calls = <<>>
           ELSE /\ Len(calls) >= 2
                /\ calls[1] = [fn |-> "set_joint_positions", body |-> conf1.body,
                               joints |-> conf1.joints,
                               values |-> conf1.configuration]
                /\ calls[Len(calls)].fn = "plan_joint_motion"
                /\ calls[Len(calls)].start = world.conf[calls[Len(calls)].body]
                /\ \A k \in 1..(Len(calls) - 1) : calls[k].fn # "plan_joint_motion"

\* The same statement for configurations of the robot the generator was made
\* for: the planner then starts from the joint values conf1.assign() wrote.
FreeMotionEndpointsOfRobot == conf1.body # robot \/ C11_FreeMotionEndpoints

\* The free-motion generator planned a path for two configurations of its own
\* robot that differ, with fluents to assign first.
FreeMotionOfRobotReturned ==
    /\ mpc = "done"
    /\ mcall.gen = "free"
    /\ ~teleport
    /\ conf1.body = robot
    /\ conf2.body = robot
    /\ conf1.joints = conf2.joints
    /\ conf1.configuration = 1
    /\ conf2.configuration = 0
    /\ fluents # <<>>
    /\ mresult # None
    /\ mresult.kind = "tuple"
    /\ Len(ReturnedPath.path) = 3

\* The positions of the 'atpose' fluents in a fluent list.
AtPoseFluents(fs) == {i \in DOMAIN fs : fs[i].name = "atpose"}

\* The elements of a list.
Elements(s) == {s[i] : i \in DOMAIN s}

PlannerNames == {"plan_joint_motion", "plan_joint_motion_interpolation"}

\* C12: in non-teleport mode, for each of the three motion generators and any
\* fluent list, a call with two configurations of the same body and joint
\* list is aborted by no fluent and invokes the planner once, as its last
\* collaborator call; before that it has assigned conf1 first and then the
\* pose of every 'atpose' fluent; the obstacles passed to the planner are the
\* bodies of the 'atpose' fluents and the bodies of the fixed obstacle list,
\* the other fluents adding none; and the fixed obstacle list is the same
\* after the call as before.
C12_FluentsFoldedBeforePlanning ==
    [][(mpc = "start" /\ mpc' = "done" /\ ~teleport
          /\ conf1.body = conf2.body /\ conf1.joints = conf2.joints) =>
         LET first == Len(calls) + 1
             last == Len(calls')
         IN /\ last > first
            /\ calls'[last].fn \in PlannerNames
            /\ \A k \in first..(last - 1) : calls'[k].fn \notin PlannerNames
            /\ calls'[first] = [fn |-> "set_joint_positions", body |-> conf1.body,
                                joints |-> conf1.joints,
                                values |-> conf1.configuration]
            /\ world'.conf[conf1.body] = conf1.configuration
            /\ \A i \in AtPoseFluents(fluents) :
                  \E k \in (first + 1)..(last - 1) :
                     calls'[k] = [fn |-> "set_pose", body |-> fluents[i].p.body,
                                  pose |-> fluents[i].p.pose]
            /\ Elements(calls'[last].obstacles) =
                  {fluents[i].o : i \in AtPoseFluents(fluents)} \cup Elements(fixed)
            /\ fixed' = fixed]_vars

\* A generator that does not teleport planned with a fixed obstacle, after a
\* fluent of another predicate and an 'atpose' fluent.
C12_Witness ==
    /\ mpc = "done"
    /\ ~teleport
    /\ mcall.gen = "holding"
    /\ conf1.body = conf2.body
    /\ conf1.joints = conf2.joints
    /\ fixed = <<"table">>
    /\ Len(fluents) = 2
    /\ fluents[1].name = "on"
    /\ fluents[2].name = "atpose"
    /\ calls # <<>>
    /\ calls[Len(calls)].fn = "plan_joint_motion"
    /\ Elements(calls[Len(calls)].obstacles) = {fluents[2].o, "table"}

-----------------------------------------------------------------------------
(* Claims about the movable-collision test *)

\* The candidate body is a body of some segment of the Command: the body of a
\* Path or a body attached to it, the body or the robot of an Attach/Detach.
CandidateInCommand ==
    \E i \in DOMAIN tcommand.body_paths :
        LET s == tcommand.body_paths[i]
        IN \/ tbody = s.body
           \/ s.kind = "BodyPath" /\ \E k \in DOMAIN s.attachments :
                                        tbody = s.attachments[k].body
           \/ s.kind # "BodyPath" /\ tbody = s.robot

\* C5: when the candidate body is one of command.bodies(), test returns False
\* at once, whatever the pose: the pose is not assigned to the world and no
\* segment is replayed.
C5_OwnBodyExempt ==
    CandidateInCommand =>
        /\ tpc \in {"start", "done"}
        /\ tpc = "done" => tresult = [kind |-> "return", value |-> FALSE]
        /\ calls = <<>>
        /\ world = InitWorld
        /\ replayed = <<>>

\* test has returned for a candidate that a two-configuration Path of the
\* Command carries as an attachment.
C5_Witness ==
    /\ tpc = "done"
    /\ tpose.pose = Pose(2)
    /\ Len(tcommand.body_paths) = 2
    /\ tcommand.body_paths[2].kind = "BodyPath"
    /\ Len(tcommand.body_paths[2].path) = 2
    /\ tcommand.body_paths[2].attachments # <<>>
    /\ tcommand.body_paths[2].attachments[1].body = tbody
    /\ tcommand.body_paths[1].kind = "BodyPath"
    /\ tcommand.body_paths[1].attachments = <<>>

\* The replay steps of a Command in order: every configuration index of every
\* Path segment, from segment i on.
RECURSIVE ReplaySteps(_, _)
ReplaySteps(c, i) ==
    IF i > Len(c.body_paths) THEN <<>>
    ELSE (IF c.body_paths[i].kind = "BodyPath"
          THEN [k \in 1 .. Len(c.body_paths[i].path) |-> [seg |-> i, step |-> k - 1]]
          ELSE <<>>) \o ReplaySteps(c, i + 1)

\* C6: for a candidate body outside command.bodies(), test first assigns the
\* pose and then replays the segments in order; it returns True exactly when
\* at some replay step of a Path a body of that Path (its own or an attached
\* one) collides with the candidate, stopping at the first such step, and it
\* returns False only after every step of every segment was replayed with no
\* collision.
C6_ReplayUntilCollision ==
    ~CandidateInCommand =>
        LET all == ReplaySteps(tcommand, 1)
            n == Len(replayed)
        IN /\ tpc # "start" =>
                 /\ calls # <<>>
                 /\ calls[1] = [fn |-> "set_pose", body |-> tbody, pose |-> tpose.pose]
           /\ n <= Len(all)
           /\ \A k \in 1 .. n :
                 /\ replayed[k].seg = all[k].seg
                 /\ replayed[k].step = all[k].step
                 /\ LET s == tcommand.body_paths[replayed[k].seg]
                    IN replayed[k].hit \subseteq
                          ({s.body} \cup {s.attachments[j].body : j \in DOMAIN s.attachments})
           /\ Cardinality({k \in DOMAIN calls : calls[k].fn = "set_joint_positions"}) = n
           /\ \A k \in 1 .. n - 1 : replayed[k].hit = {}
           /\ tpc # "done" => (n = 0 \/ replayed[n].hit = {})
           /\ tpc = "done" =>
                 /\ tresult.kind = "return"
                 /\ tresult.value <=> (n > 0 /\ replayed[n].hit # {})
                 /\ ~tresult.value => n = Len(all)

\* test has returned True at the first step of the second Path, where only the
\* attached block collides, after a first Path replayed without a collision
\* and with a step of the second Path left.
C6_Witness ==
    /\ tpc = "done"
    /\ tbody = "block1"
    /\ tresult = [kind |-> "return", value |-> TRUE]
    /\ Len(replayed) = 3
    /\ replayed[3].seg = 2
    /\ replayed[3].hit = {"block2"}
    /\ Len(ReplaySteps(tcommand, 1)) = 4

-----------------------------------------------------------------------------
(* Claims about the grasp-command generator *)

\* The collaborators' answers let the attempt through: both IK calls found a
\* solution, neither collision check found a collision and, unless
\* teleporting, direct motion planning found a path.
AttemptSucceeded(a) ==
    /\ a.q_approach # None
    /\ "hit_approach" \in DOMAIN a /\ ~a.hit_approach
    /\ "q_grasp" \in DOMAIN a /\ a.q_grasp # None
    /\ "hit_grasp" \in DOMAIN a /\ ~a.hit_grasp
    /\ iteleport \/ ("path" \in DOMAIN a /\ a.path # None)

\* C7: fn of get_ik_fn makes at most num_attempts attempts; an attempt that
\* fails at approach IK, the approach collision check, grasp IK, the grasp
\* collision check or direct motion planning moves on to the next attempt
\* without raising; fn returns None exactly when all num_attempts attempts
\* failed, and otherwise the result of the first successful attempt, with no
\* attempt made after it.
C7_BoundedRetry ==
    /\ Len(attempts) <= num_attempts
    /\ \A k \in 1 .. Len(attempts) - 1 : ~AttemptSucceeded(attempts[k])
    /\ ipc = "loop" =>
          /\ \A k \in DOMAIN attempts : ~AttemptSucceeded(attempts[k])
          /\ ENABLED (IkAttempt \/ IkReturnNone)
    /\ ipc = "done" =>
          /\ iresult.kind \in {"None", "tuple"}
          /\ iresult = None <=>
                /\ Len(attempts) = num_attempts
                /\ \A k \in DOMAIN attempts : ~AttemptSucceeded(attempts[k])
          /\ iresult # None => AttemptSucceeded(attempts[Len(attempts)])

\* Without teleport, fn has returned a result from its second attempt after
\* a first attempt whose direct motion planning found no path.
C7_Witness ==
    /\ ipc = "done"
    /\ ~iteleport
    /\ Len(attempts) = 2
    /\ "path" \in DOMAIN attempts[1]
    /\ attempts[1].path = None
    /\ iresult # None

\* C8: a successful fn returns (conf, command): conf holds the approach IK
\* solution, and command is a Path of the robot with no attachments, an
\* Attach(body, robot, grasp.link) and a Path of the robot whose configurations
\* are the first Path's in reverse and whose attachments are [grasp]; when
\* teleporting, the first Path is [approach configuration, grasp configuration].
C8_GraspCommandShape ==
    (ipc = "done" /\ iresult # None) =>
        LET a == attempts[Len(attempts)]
            c == iresult.command.body_paths
        IN /\ iresult.kind = "tuple"
           /\ iresult.conf.kind = "BodyConf"
           /\ iresult.conf.body = "panda"
           /\ iresult.conf.configuration = a.q_approach.q
           /\ iresult.command.kind = "Command"
           /\ Len(c) = 3
           /\ c[1].kind = "BodyPath" /\ c[1].body = "panda" /\ c[1].attachments = <<>>
           /\ c[2] = [kind |-> "Attach", body |-> igrasp.body, robot |-> "panda",
                      link |-> igrasp.link]
           /\ c[3].kind = "BodyPath" /\ c[3].body = "panda"
           /\ c[3].attachments = <<igrasp>>
           /\ Len(c[3].path) = Len(c[1].path)
           /\ \A k \in 1 .. Len(c[1].path) : c[3].path[k] = c[1].path[Len(c[1].path) + 1 - k]
           /\ iteleport => c[1].path = <<a.q_approach.q, a.q_grasp.q>>

\* Without teleport, fn has returned a Command whose approach Path has three
\* configurations that do not read the same backwards.
C8_Witness ==
    /\ ipc = "done"
    /\ ~iteleport
    /\ iresult # None
    /\ Len(iresult.command.body_paths[1].path) = 3
    /\ iresult.command.body_paths[1].path[1] # iresult.command.body_paths[1].path[3]

-----------------------------------------------------------------------------
(* Claims about the grasp enumeration *)

\* The number of candidates the claim gives an axis of extent x.
CandidatesOfAxis(x, max_width, under) ==
    IF x <= max_width THEN (IF under THEN 2 ELSE 1) ELSE 0

\* C10: get_top_grasps yields 1 + under candidates for each horizontal axis
\* whose extent is at most max_width and none for an axis above it (none at
\* all when both are above, 1 or 2 when only w is within, 2 without under
\* when both are within); the stream of get_grasp_gen emits one BodyGrasp per
\* enumerated transform, each with the same fixed approach transform, and
\* then ends.
C10_TopGraspCount ==
    /\ gpc = "enumerated" =>
          /\ Len(top_grasps) = CandidatesOfAxis(gw, gmax, gunder)
                                  + CandidatesOfAxis(gl, gmax, gunder)
          /\ (gw > gmax /\ gl > gmax) => top_grasps = <<>>
          /\ (gw <= gmax /\ gl > gmax) => Len(top_grasps) = (IF gunder THEN 2 ELSE 1)
          /\ (gw <= gmax /\ gl <= gmax /\ ~gunder) => Len(top_grasps) = 2
    /\ ggen.started =>
          /\ Len(ggen.yielded) <= Len(ggen.grasp_poses)
          /\ \A k \in DOMAIN ggen.yielded :
                /\ ggen.yielded[k].kind = "BodyGrasp"
                /\ ggen.yielded[k].grasp_pose = ggen.grasp_poses[k]
                /\ ggen.yielded[k].approach_pose = [kind |-> "Pose", id |-> "0.1*Point(z=1)"]
          /\ ggen.done => Len(ggen.yielded) = Len(ggen.grasp_poses)
    /\ ~ggen.done => ENABLED GraspGenNext

\* With under enabled, get_top_grasps has enumerated a body whose first extent
\* equals max_width and whose second exceeds it, and the stream of the
\* generator has ended after its grasps.
C10_Witness ==
    /\ gpc = "enumerated"
    /\ gunder
    /\ gw = gmax
    /\ gl > gmax
    /\ Len(top_grasps) = 2
    /\ ggen.done
    /\ Len(ggen.yielded) = 4

====
